---- MODULE Spec2Model ----
(***************************************************************************)
(* Fiscal-period resolution of SEC EDGAR company facts.                    *)
(*                                                                         *)
(*   step2.py  extract_metric, display_net_income and the script's main    *)
(*   step3.py  combine_metrics, display_summary and the script's main      *)
(*                                                                         *)
(* A filing (one element of data['facts']['us-gaap'][c]['units']['USD'])   *)
(* is a record whose DOMAIN is the set of keys the JSON object carries, so *)
(* that "'start' in filing" is "start" \in DOMAIN filing and a missing key *)
(* is a KeyError.  A date string 'YYYY-MM-DD' is the triple <<Y, M, D>> of *)
(* its three numeric fields; strptime accepts it when the month and the    *)
(* day exist in the calendar and raises ValueError otherwise.              *)
(***************************************************************************)
EXTENDS Integers, Sequences, FiniteSets, TLC

VARIABLES data, pc, results, df, rows, margins

vars == <<data, pc, results, df, rows, margins>>

----------------------------------------------------------------------------
(* Bounds of the explored inputs *)

\* longest list of filings under one concept's 'USD' unit (step2 runs)
MaxFilings == 3

\* number of consecutive fiscal years a concept may cover (step3 runs)
NumYears == 4

----------------------------------------------------------------------------
(* datetime.strptime(s, '%Y-%m-%d') and date arithmetic *)

IsLeap(y) == (y % 4 = 0) /\ ((y % 100 # 0) \/ (y % 400 = 0))

DaysInMonth(y, m) ==
    IF m = 2 THEN (IF IsLeap(y) THEN 29 ELSE 28)
    ELSE IF m \in {4, 6, 9, 11} THEN 30 ELSE 31

\* strptime raises ValueError unless the fields name a day of the calendar
strptime_ok(s) ==
    /\ s[2] \in 1..12
    /\ s[3] >= 1
    /\ s[3] <= DaysInMonth(s[1], s[2])

DaysBeforeYear(y) == (y - 1) * 365 + ((y - 1) \div 4) - ((y - 1) \div 100) + ((y - 1) \div 400)

\* the days of a common year before the first of each month
DaysBeforeMonthTable == <<0, 31, 59, 90, 120, 151, 181, 212, 243, 273, 304, 334>>

DaysBeforeMonth(y, m) ==
    DaysBeforeMonthTable[m] + (IF m > 2 /\ IsLeap(y) THEN 1 ELSE 0)

\* the proleptic Gregorian ordinal of a parsed date; (end - start).days is
\* the difference of two ordinals
toordinal(s) == DaysBeforeYear(s[1]) + DaysBeforeMonth(s[1], s[2]) + s[3]

\* Python compares the 'filed' strings character by character; on zero-padded
\* 'YYYY-MM-DD' strings that is the lexicographic order of the three fields
StrLess(a, b) ==
    \/ a[1] < b[1]
    \/ (a[1] = b[1] /\ a[2] < b[2])
    \/ (a[1] = b[1] /\ a[2] = b[2] /\ a[3] < b[3])

abs(x) == IF x < 0 THEN -x ELSE x

----------------------------------------------------------------------------
(* extract_metric (step2.py) *)

\* dict.get: None when the key is missing
get(f, k) == IF k \in DOMAIN f THEN f[k] ELSE "None"

\* the filter with the test of 'fp' left out
IsAnnual_form_only(f) == get(f, "form") = "10-K"

\* line 27: the annual filter
IsAnnual(f) == get(f, "form") = "10-K" /\ get(f, "fp") = "FY"

annual_of(filings) == SelectSeq(filings, IsAnnual)

\* lines 29-31: by_year[filing['fy']].append(filing); KeyError when a kept
\* filing carries no 'fy'
GroupFault(annual) == \E i \in 1..Len(annual) : "fy" \notin DOMAIN annual[i]

by_year_of(annual) ==
    [y \in {annual[i].fy : i \in 1..Len(annual)} |->
        SelectSeq(annual, LAMBDA f : f.fy = y)]

\* the keys in descending order
RECURSIVE SortedSeq_desc(_)
SortedSeq_desc(S) ==
    IF S = {} THEN <<>>
    ELSE LET m == CHOOSE x \in S : \A y \in S : y <= x
         IN  <<m>> \o SortedSeq_desc(S \ {m})

\* sorted(by_year.keys())
RECURSIVE SortedSeq(_)
SortedSeq(S) ==
    IF S = {} THEN <<>>
    ELSE LET m == CHOOSE x \in S : \A y \in S : x <= y
         IN  <<m>> \o SortedSeq(S \ {m})

\* line 48: the eligibility test of one duration filing
Eligible(start, end, days, year) ==
    days >= 350 /\ start[1] >= year - 1 /\ end[1] >= year - 1

\* lines 42-50: the loop over one duration-typed group, from filing i on;
\* it stops at the first filing whose dates cannot be read
\* lines 43-44: what reading the two dates of a filing raises, if anything
DateFault(filing) ==
    IF "start" \notin DOMAIN filing THEN "KeyError"
    ELSE IF ~strptime_ok(filing.start) THEN "ValueError"
    ELSE IF "end" \notin DOMAIN filing THEN "KeyError"
    ELSE IF ~strptime_ok(filing.end) THEN "ValueError"
    ELSE "none"

\* line 45: days = (end - start).days
days_of(start, end) == toordinal(end) - toordinal(start)

\* line 49: score = abs(end.year - year)
score_of(end, year) == abs(end[1] - year)

\* lines 48-50: the candidates after a filing whose dates were read
WithCandidate(candidates, filing, year) ==
    IF Eligible(filing.start, filing.end, days_of(filing.start, filing.end), year)
    THEN Append(candidates,
                <<filing, score_of(filing.end, year), -days_of(filing.start, filing.end)>>)
    ELSE candidates

RECURSIVE ScanGroup(_, _, _, _)
ScanGroup(group, year, i, candidates) ==
    IF i > Len(group) THEN [err |-> "none", candidates |-> candidates]
    ELSE IF DateFault(group[i]) # "none"
         THEN [err |-> DateFault(group[i]), candidates |-> <<>>]
         ELSE ScanGroup(group, year, i + 1, WithCandidate(candidates, group[i], year))

\* the sort key without its second component
KeyLess_primary(a, b) == a[2] < b[2]

\* line 53: the sort key (x[1], x[2]) of a candidate, compared as a tuple
KeyLess(a, b) == a[2] < b[2] \/ (a[2] = b[2] /\ a[3] < b[3])

\* list.sort is stable: x goes behind every element whose key is not greater
RECURSIVE InsertSorted(_, _)
InsertSorted(x, s) ==
    IF s = <<>> THEN <<x>>
    ELSE IF KeyLess(x, Head(s)) THEN <<x>> \o s
    ELSE <<Head(s)>> \o InsertSorted(x, Tail(s))

RECURSIVE SortCandidates(_)
SortCandidates(c) ==
    IF c = <<>> THEN <<>>
    ELSE InsertSorted(c[Len(c)], SortCandidates(SubSeq(c, 1, Len(c) - 1)))

\* a maximum that keeps the last maximal element
RECURSIVE MaxFiled_last(_, _, _)
MaxFiled_last(group, i, best) ==
    IF i > Len(group) THEN best
    ELSE IF ~StrLess(group[i].filed, best.filed) THEN MaxFiled_last(group, i + 1, group[i])
    ELSE MaxFiled_last(group, i + 1, best)

\* line 57: max(group, key=lambda x: x['filed']) keeps the first maximal
\* element; KeyError when a filing carries no 'filed'
RECURSIVE MaxFiled(_, _, _)
MaxFiled(group, i, best) ==
    IF i > Len(group) THEN best
    ELSE IF StrLess(best.filed, group[i].filed) THEN MaxFiled(group, i + 1, group[i])
    ELSE MaxFiled(group, i + 1, best)

\* line 37: 'start' in by_year[year][0]
has_start_date(group) == "start" \in DOMAIN group[1]

\* candidates[0] taken without the test "if candidates:"
PickCandidate_unguarded(scan) ==
    IF scan.err # "none" THEN [err |-> scan.err, out |-> <<>>]
    ELSE IF scan.candidates # <<>>
         THEN [err |-> "none", out |-> <<SortCandidates(scan.candidates)[1][1]>>]
         ELSE [err |-> "IndexError", out |-> <<>>]

\* lines 52-54: the first candidate of the sorted list, if there is one
PickCandidate(scan) ==
    IF scan.err # "none" THEN [err |-> scan.err, out |-> <<>>]
    ELSE IF scan.candidates # <<>>
         THEN [err |-> "none", out |-> <<SortCandidates(scan.candidates)[1][1]>>]
         ELSE [err |-> "none", out |-> <<>>]

\* lines 37-58: one pass of the loop body; what it appends to results
ResolveYear(group, year) ==
    IF has_start_date(group)
    THEN PickCandidate(ScanGroup(group, year, 1, <<>>))
    ELSE IF \E i \in 1..Len(group) : "filed" \notin DOMAIN group[i]
         THEN [err |-> "KeyError", out |-> <<>>]
         ELSE [err |-> "none", out |-> <<MaxFiled(group, 2, group[1])>>]

\* lines 33-60: the loop over the sorted years, abandoned at the first error;
\* r is what the pass for the first of years made
RECURSIVE ResolveYears(_, _, _)
ResolveRest(by_year, years, acc, r) ==
    IF r.err # "none" THEN [err |-> r.err, out |-> <<>>]
    ELSE ResolveYears(by_year, Tail(years), acc \o r.out)

ResolveYears(by_year, years, acc) ==
    IF years = <<>> THEN [err |-> "none", out |-> acc]
    ELSE ResolveRest(by_year, years, acc,
                     ResolveYear(by_year[Head(years)], Head(years)))

\* the return without the except clause: every error leaves the call
Outcome_uncaught(r) ==
    IF r.err = "none" THEN [raised |-> FALSE, err |-> "none", value |-> r.out]
    ELSE [raised |-> TRUE, err |-> r.err, value |-> <<>>]

\* lines 60-64: the return of the list, or the except clause, which turns a
\* KeyError into a normal return of [] and lets a ValueError leave the call
\* (raised = TRUE: nothing is returned)
Outcome(r) ==
    IF r.err = "none" THEN [raised |-> FALSE, err |-> "none", value |-> r.out]
    ELSE IF r.err = "KeyError"
         THEN [raised |-> FALSE, err |-> "KeyError", value |-> <<>>]
         ELSE [raised |-> TRUE, err |-> r.err, value |-> <<>>]

\* lines 29-60 on the filtered list
ResolveAnnual(annual) ==
    IF GroupFault(annual) THEN [err |-> "KeyError", out |-> <<>>]
    ELSE ResolveYears(by_year_of(annual),
                      SortedSeq({annual[i].fy : i \in 1..Len(annual)}), <<>>)

\* lines 25-64.  err names the exception met, if any
extract_metric(d, metric_name) ==
    IF metric_name \notin DOMAIN d \/ "USD" \notin DOMAIN d[metric_name]
    THEN Outcome([err |-> "KeyError", out |-> <<>>])
    ELSE Outcome(ResolveAnnual(annual_of(d[metric_name]["USD"])))

----------------------------------------------------------------------------
(* Exact arithmetic on the quotients the scripts print *)

RECURSIVE gcd(_, _)
gcd(a, b) == IF b = 0 THEN a ELSE gcd(b, a % b)

\* the number n / d (d > 0) in lowest terms, as <<numerator, denominator>>
Ratio(n, d) == <<n \div gcd(abs(n), d), d \div gcd(abs(n), d)>>

----------------------------------------------------------------------------
(* display_net_income (step2.py) *)

\* the growth taken over prev_val instead of abs(prev_val)
growth_of_signed(val, prev) ==
    IF prev # <<>> /\ prev[1] # 0
    THEN Ratio((val - prev[1]) * 100 * (IF prev[1] < 0 THEN -1 ELSE 1), abs(prev[1]))
    ELSE <<>>

\* lines 82-86: the growth shown for val after prev_val; prev is <<>> while
\* prev_val is None and <<v>> afterwards.  "N/A" is <<>>, a percentage is the
\* exact quotient ((val - prev_val) / abs(prev_val)) * 100.
growth_of(val, prev) ==
    IF prev # <<>> /\ prev[1] # 0
    THEN Ratio((val - prev[1]) * 100, abs(prev[1]))
    ELSE <<>>

\* lines 74-89: the printed rows, in the order of the loop
RECURSIVE display_rows(_, _, _)
display_rows(filings, i, prev) ==
    IF i > Len(filings) THEN <<>>
    ELSE <<[year   |-> filings[i].fy,
            val    |-> filings[i].val,
            status |-> IF filings[i].val > 0 THEN "PROFIT" ELSE "LOSS",
            growth |-> growth_of(filings[i].val, prev)]>>
         \o display_rows(filings, i + 1, <<filings[i].val>>)

display_net_income(filings) == display_rows(filings, 1, <<>>)

----------------------------------------------------------------------------
(* combine_metrics and display_summary (step3.py) *)

\* lines 18-22: the METRICS dict, in insertion order, as <<name, concept>>
METRICS ==
    << <<"net_income", "NetIncomeLoss">>,
       <<"revenue", "RevenueFromContractWithCustomerExcludingAssessedTax">>,
       <<"assets", "Assets">> >>

\* a missing cell of a DataFrame (NaN) is <<>>, a cell holding v is <<v>>
NaN == <<>>

\* lines 31-32: pd.DataFrame(results)[['fy', 'val']] with the columns renamed;
\* a frame is its value columns and its rows, a row its key and its cells
frame_of(res, name) ==
    [columns |-> <<name>>,
     rows    |-> [i \in 1..Len(res) |->
                    [fiscal_year |-> res[i].fy,
                     cells |-> [c \in {name} |-> <<res[i].val>>]]]]

ColumnSet(frame) == {frame.columns[i] : i \in 1..Len(frame.columns)}

KeysOf(frame) == {frame.rows[i].fiscal_year : i \in 1..Len(frame.rows)}

RowsWithKey(frame, k) == SelectSeq(frame.rows, LAMBDA r : r.fiscal_year = k)

\* the rows an outer merge makes for key k: every pairing of a left row with
\* a right row of that key, or the rows of the one side padded with NaN
BlankCells(cols) == [c \in cols |-> NaN]

JoinRow(k, l, r, lcols, rcols) ==
    [fiscal_year |-> k,
     cells |-> [c \in lcols \cup rcols |-> IF c \in rcols THEN r[c] ELSE l[c]]]

RECURSIVE PairRows(_, _, _, _, _)
PairRows(L, R, lcols, rcols, k) ==
    IF L = <<>> /\ R = <<>> THEN <<>>
    ELSE IF L = <<>>
         THEN [j \in 1..Len(R) |-> JoinRow(k, BlankCells(lcols), R[j].cells, lcols, rcols)]
    ELSE IF R = <<>>
         THEN [i \in 1..Len(L) |-> JoinRow(k, L[i].cells, BlankCells(rcols), lcols, rcols)]
    ELSE [j \in 1..Len(R) |-> JoinRow(k, Head(L).cells, R[j].cells, lcols, rcols)]
         \o (IF Len(L) = 1 THEN <<>> ELSE PairRows(Tail(L), R, lcols, rcols, k))

RECURSIVE MergeKeys(_, _, _)
MergeKeys(left, right, keys) ==
    IF keys = <<>> THEN <<>>
    ELSE PairRows(RowsWithKey(left, Head(keys)), RowsWithKey(right, Head(keys)),
                  ColumnSet(left), ColumnSet(right), Head(keys))
         \o MergeKeys(left, right, Tail(keys))

\* the keys of how='inner'
MergeKeySet_inner(left, right) == KeysOf(left) \cap KeysOf(right)

\* the keys a merge keeps: how='outer' keeps the keys of either frame
MergeKeySet(left, right) == KeysOf(left) \cup KeysOf(right)

\* line 41: result.merge(df, on='fiscal_year', how='outer')
merge(left, right) ==
    [columns |-> left.columns \o right.columns,
     rows    |-> MergeKeys(left, right, SortedSeq(MergeKeySet(left, right)))]

\* line 43: sort_values('fiscal_year')
RECURSIVE InsertRow(_, _)
InsertRow(x, s) ==
    IF s = <<>> THEN <<x>>
    ELSE IF x.fiscal_year < Head(s).fiscal_year THEN <<x>> \o s
    ELSE <<Head(s)>> \o InsertRow(x, Tail(s))

RECURSIVE sort_values(_)
sort_values(rws) ==
    IF rws = <<>> THEN <<>>
    ELSE InsertRow(rws[Len(rws)], sort_values(SubSeq(rws, 1, Len(rws) - 1)))

\* line 30: "if results:" keeps a concept only when its series is not empty
KeepsConcept(res) == res # <<>>

\* lines 27-34: the loop over the metrics; it ends at the first call of
\* extract_metric that raises
RECURSIVE collect_frames(_, _, _, _)
\* lines 30-33 for the i-th metric, r being what extract_metric made of it
collect_one(d, metrics, i, dfs, r) ==
    IF r.raised THEN [raised |-> TRUE, dfs |-> <<>>]
    ELSE IF KeepsConcept(r.value)
         THEN collect_frames(d, metrics, i + 1,
                             Append(dfs, frame_of(r.value, metrics[i][1])))
         ELSE collect_frames(d, metrics, i + 1, dfs)

collect_frames(d, metrics, i, dfs) ==
    IF i > Len(metrics) THEN [raised |-> FALSE, dfs |-> dfs]
    ELSE collect_one(d, metrics, i, dfs, extract_metric(d, metrics[i][2]))

\* lines 39-41: the left fold of merge over the frames
RECURSIVE merge_all(_, _)
merge_all(result, rest) ==
    IF rest = <<>> THEN result ELSE merge_all(merge(result, Head(rest)), Tail(rest))

NoFrame == [columns |-> <<>>, rows |-> <<>>]

\* line 43: the merged frame with its rows sorted
sorted_frame(m) == [columns |-> m.columns, rows |-> sort_values(m.rows)]

\* lines 36-43 on the frames collected.  is_none: the call returned None
combine_frames(c) ==
    IF c.raised THEN [raised |-> TRUE, is_none |-> FALSE, frame |-> NoFrame]
    ELSE IF c.dfs = <<>> THEN [raised |-> FALSE, is_none |-> TRUE, frame |-> NoFrame]
    ELSE [raised |-> FALSE, is_none |-> FALSE,
          frame |-> sorted_frame(merge_all(Head(c.dfs), Tail(c.dfs)))]

\* lines 25-43
combine_metrics(d, metrics) == combine_frames(collect_frames(d, metrics, 1, <<>>))

\* line 64: df.tail(5) keeps the last five rows
RecentRows == 5

tail(rws, n) == IF Len(rws) <= n THEN rws ELSE SubSeq(rws, Len(rws) - n + 1, Len(rws))

\* line 78: (row['net_income'] / row['revenue']) * 100 in float arithmetic:
\* NaN when a cell is missing (or 0/0), an infinity on a zero revenue
margin_of(net_income, revenue) ==
    IF net_income = NaN \/ revenue = NaN THEN [kind |-> "nan", value |-> <<>>]
    ELSE IF revenue[1] = 0
         THEN (IF net_income[1] = 0 THEN [kind |-> "nan", value |-> <<>>]
               ELSE [kind |-> "inf", value |-> <<>>])
    ELSE [kind |-> "number",
          value |-> Ratio(net_income[1] * 100 * (IF revenue[1] < 0 THEN -1 ELSE 1),
                          abs(revenue[1]))]

\* the rows of the frame the PROFIT MARGINS loop prints a line for
MarginRows(recent) == recent

\* lines 75-79: the PROFIT MARGINS lines, one per row of recent
margin_lines(shown) ==
    [i \in 1..Len(shown) |->
        [fiscal_year |-> shown[i].fiscal_year,
         margin |-> margin_of(shown[i].cells["net_income"], shown[i].cells["revenue"])]]

display_summary(frame) ==
    IF "net_income" \in ColumnSet(frame) /\ "revenue" \in ColumnSet(frame)
    THEN margin_lines(MarginRows(tail(frame.rows, RecentRows)))
    ELSE <<>>

----------------------------------------------------------------------------
(* The inputs explored *)

\* an income-statement filing: it carries 'start' and 'end'
Dur(form, fp, fy, start, end, val) ==
    [form |-> form, fp |-> fp, fy |-> fy, start |-> start, end |-> end,
     filed |-> <<fy + 1, 2, 1>>, val |-> val]

\* a balance-sheet filing: it carries no 'start'
Inst(form, fp, fy, filed, val) ==
    [form |-> form, fp |-> fp, fy |-> fy, end |-> <<fy, 12, 31>>,
     filed |-> filed, val |-> val]

\* reporting periods around fiscal year 2019, as <<start, end>>:
\* 363, 371 and 364 days ending in 2019, 200 days, a stale prior year,
\* a year ending in 2020, and two whose start or end names no calendar day
Periods2019 ==
    { << <<2018, 12, 30>>, <<2019, 12, 28>> >>,
      << <<2018, 12, 25>>, <<2019, 12, 31>> >>,
      << <<2019, 1, 1>>,   <<2019, 12, 31>> >>,
      << <<2019, 1, 1>>,   <<2019, 7, 20>> >>,
      << <<2017, 12, 31>>, <<2018, 12, 29>> >>,
      << <<2019, 12, 29>>, <<2020, 12, 26>> >>,
      << <<2019, 2, 30>>,  <<2019, 12, 31>> >> }

Periods2020 ==
    { << <<2019, 12, 29>>, <<2020, 12, 26>> >>,
      << <<2019, 1, 1>>,   <<2019, 12, 31>> >>,
      << <<2020, 1, 1>>,   <<2020, 7, 19>> >>,
      << <<2019, 12, 29>>, <<2020, 13, 1>> >> }

FiledDates == { <<2020, 2, 1>>, <<2021, 1, 15>> }

\* the filings a 'USD' list of the step2 runs is made of
Pool ==
    {Dur("10-K", "FY", 2019, p[1], p[2], 1) : p \in Periods2019}
    \cup {Dur("10-K", "FY", 2020, p[1], p[2], 1) : p \in Periods2020}
    \cup {Dur("10-K", "FY", 2019, <<2019, 1, 1>>, <<2019, 12, 31>>, 2)}
    \cup {Inst("10-K", "FY", fy, fd, 1) : fy \in {2019, 2020}, fd \in FiledDates}
    \cup {Inst("10-K", "FY", 2019, <<2021, 1, 15>>, 2)}
    \cup {Dur("10-K", "Q1", 2019, <<2018, 12, 20>>, <<2019, 12, 31>>, 3),
          Inst("10-Q", "FY", 2019, <<2021, 6, 1>>, 3)}

\* the filings of the runs that look at the growth column: one balance-sheet
\* filing per year and value, over years with a gap
GrowthPool ==
    {Inst("10-K", "FY", fy, <<2021, 1, 15>>, v) :
        fy \in {2020, 2021, 2023}, v \in {-50, 0, 100}}

SeqsUpTo(S, n) == UNION {[1..k -> S] : k \in 0..n}

\* data['facts']['us-gaap'] holding at most the one concept c
FactsOf(c, P, n) ==
    { [x \in {} |-> x], [x \in {c} |-> [shares |-> <<>>]] }
    \cup { [x \in {c} |-> [USD |-> fs]] : fs \in SeqsUpTo(P, n) }

\* the fiscal years of the step3 runs
CombineYears == 2019..(2019 + NumYears - 1)

\* the value concept number k reports for fiscal year y
ValueOf(k, y) == k * 100 + (y - 2000)

\* one full-year filing of concept number k per year of Y, latest year
\* first; the third concept (Assets) is a balance-sheet item
RECURSIVE FilingsFor(_, _)
FilingsFor(k, Y) ==
    IF Y = {} THEN <<>>
    ELSE LET y == CHOOSE x \in Y : \A z \in Y : z <= x IN
         <<IF k = 3
           THEN Inst("10-K", "FY", y, <<y + 1, 2, 1>>, ValueOf(k, y))
           ELSE Dur("10-K", "FY", y, <<y, 1, 1>>, <<y, 12, 31>>, ValueOf(k, y))>>
         \o FilingsFor(k, Y \ {y})

\* what the collection holds for one concept: nothing, no 'USD' unit, or
\* the filings of a set of years
Holdings ==
    { [kind |-> "absent", years |-> {}], [kind |-> "nousd", years |-> {}] }
    \cup { [kind |-> "usd", years |-> Y] : Y \in SUBSET CombineYears }

CombineFacts(h) ==
    [c \in {METRICS[k][2] : k \in {j \in 1..Len(METRICS) : h[j].kind # "absent"}} |->
        LET k == CHOOSE j \in 1..Len(METRICS) : METRICS[j][2] = c IN
        IF h[k].kind = "nousd" THEN [shares |-> <<>>]
        ELSE [USD |-> FilingsFor(k, h[k].years)]]

----------------------------------------------------------------------------
(* The scripts *)

NoResult == [raised |-> FALSE, is_none |-> FALSE, frame |-> NoFrame]

Blank ==
    /\ pc = "start"
    /\ results = <<>>
    /\ df = NoResult
    /\ rows = <<>>
    /\ margins = <<>>

\* step2.py with amd_data.json loaded
Init ==
    /\ data \in FactsOf("NetIncomeLoss", Pool, MaxFilings)
    /\ Blank

InitGrowth ==
    /\ data \in FactsOf("NetIncomeLoss", GrowthPool, MaxFilings)
    /\ Blank

\* step3.py with amd_data.json loaded
InitCombine ==
    /\ data \in {CombineFacts(h) : h \in [1..Len(METRICS) -> Holdings]}
    /\ Blank

\* step2.py line 112: results = extract_metric(data, 'NetIncomeLoss'); an
\* exception that leaves the call ends the script
Returned(r) ==
    /\ results' = r.value
    /\ pc' = IF r.raised THEN "crashed" ELSE "extracted"

Extract ==
    /\ pc = "start"
    /\ Returned(extract_metric(data, "NetIncomeLoss"))
    /\ UNCHANGED <<data, df, rows, margins>>

\* step2.py lines 114-116
DisplayNetIncome ==
    /\ pc = "extracted"
    /\ results # <<>>
    /\ rows' = display_net_income(results)
    /\ pc' = "done"
    /\ UNCHANGED <<data, results, df, margins>>

\* step2.py lines 117-118
NoDataFound ==
    /\ pc = "extracted"
    /\ results = <<>>
    /\ pc' = "done"
    /\ UNCHANGED <<data, results, df, rows, margins>>

\* step3.py line 101: df = combine_metrics(data, METRICS)
Combine ==
    /\ pc = "start"
    /\ df' = combine_metrics(data, METRICS)
    /\ pc' = IF df'.raised THEN "crashed" ELSE "combined"
    /\ UNCHANGED <<data, results, rows, margins>>

\* step3.py lines 103-104
DisplaySummary ==
    /\ pc = "combined"
    /\ ~df.is_none
    /\ margins' = display_summary(df.frame)
    /\ pc' = "done"
    /\ UNCHANGED <<data, results, df, rows>>

\* step3.py lines 107-108
NoMetrics ==
    /\ pc = "combined"
    /\ df.is_none
    /\ pc' = "done"
    /\ UNCHANGED <<data, results, df, rows, margins>>

Next == Extract \/ DisplayNetIncome \/ NoDataFound

NextCombine == Combine \/ DisplaySummary \/ NoMetrics

Spec == Init /\ [][Next]_vars

SpecGrowth == InitGrowth /\ [][Next]_vars

SpecCombine == InitCombine /\ [][NextCombine]_vars

----------------------------------------------------------------------------
(* What the properties below speak of, read off the input and the output *)

\* the 'USD' list of NetIncomeLoss the step2 run was given, if there is one
Filings ==
    IF "NetIncomeLoss" \in DOMAIN data /\ "USD" \in DOMAIN data["NetIncomeLoss"]
    THEN data["NetIncomeLoss"]["USD"]
    ELSE <<>>

FactsWith(fs) == [x \in {"NetIncomeLoss"} |-> [USD |-> fs]]

Is10KFY(f) ==
    /\ "form" \in DOMAIN f /\ f.form = "10-K"
    /\ "fp" \in DOMAIN f /\ f.fp = "FY"

AnnualFilings == SelectSeq(Filings, Is10KFY)

FiscalYears == {AnnualFilings[i].fy : i \in 1..Len(AnnualFilings)}

GroupOf(y) == SelectSeq(AnnualFilings, LAMBDA f : f.fy = y)

DurationTyped(g) == "start" \in DOMAIN g[1]

\* both dates of the filing are there and name calendar days
Readable(f) ==
    /\ "start" \in DOMAIN f /\ strptime_ok(f.start)
    /\ "end" \in DOMAIN f /\ strptime_ok(f.end)

Span(f) == toordinal(f.end) - toordinal(f.start)

Qualifies(f, y) ==
    /\ Readable(f)
    /\ Span(f) >= 350
    /\ f.start[1] >= y - 1
    /\ f.end[1] >= y - 1

Distance(f, y) == IF f.end[1] >= y THEN f.end[1] - y ELSE y - f.end[1]

\* (|end.year - fy|, -days) of f is smaller than, or equal to, that of g
TupleLess(f, g, y) ==
    \/ Distance(f, y) < Distance(g, y)
    \/ (Distance(f, y) = Distance(g, y) /\ Span(f) > Span(g))

TupleSame(f, g, y) == Distance(f, y) = Distance(g, y) /\ Span(f) = Span(g)

\* g[i] qualifies, no qualifying filing has a smaller tuple, and none with
\* the same tuple stands before it
Chosen(g, y, i) ==
    /\ Qualifies(g[i], y)
    /\ \A j \in 1..Len(g) :
          Qualifies(g[j], y) =>
             /\ ~TupleLess(g[j], g[i], y)
             /\ (TupleSame(g[j], g[i], y) => i <= j)

\* g[i] has the latest 'filed' date and is the first filing having it
LatestFiled(g, i) ==
    \A j \in 1..Len(g) :
       /\ ~StrLess(g[i].filed, g[j].filed)
       /\ (g[j].filed = g[i].filed => i <= j)

\* no filing of the input is structurally faulty where the resolver reads it
CleanGroup(g) ==
    IF DurationTyped(g)
    THEN \A i \in 1..Len(g) : Readable(g[i])
    ELSE \A i \in 1..Len(g) : "filed" \in DOMAIN g[i]

CleanInput == \A y \in FiscalYears : \A g \in {GroupOf(y)} : CleanGroup(g)

\* extract_metric has returned to the script
Finished == pc \in {"extracted", "done"}

ResultYears == {results[k].fy : k \in 1..Len(results)}

\* the years the resolver has a filing to emit for
Resolvable(g, y) ==
    \/ ~DurationTyped(g)
    \/ \E i \in 1..Len(g) : Qualifies(g[i], y)

ResolvableYears == {y \in FiscalYears : \E g \in {GroupOf(y)} : Resolvable(g, y)}

----------------------------------------------------------------------------
(* Properties of extract_metric *)

\* C1: whenever extract_metric returns, the returned list is strictly
\* ascending by 'fy': of any two entries the later one has the greater
\* fiscal year, so no two entries share a fiscal year.
C1_StrictlyAscending ==
    Finished =>
       \A i, j \in 1..Len(results) : i < j => results[i].fy < results[j].fy

\* C1 witness: the input lists a later fiscal year before an earlier one and
\* two filings of one year, and two entries were returned
C1_Witness ==
    /\ pc = "extracted"
    /\ Len(results) = 2
    /\ Len(AnnualFilings) = 3
    /\ AnnualFilings[1].fy > AnnualFilings[2].fy
    /\ AnnualFilings[3].fy = AnnualFilings[1].fy

\* the duration-typed group g of year y has the entry it should
DurationGroupRight(g, y) ==
    DurationTyped(g) =>
       /\ \A k \in 1..Len(results) :
             results[k].fy = y =>
                \E i \in 1..Len(g) : Chosen(g, y, i) /\ results[k] = g[i]
       /\ ((\E i \in 1..Len(g) : Qualifies(g[i], y)) /\ CleanInput)
             => y \in ResultYears

\* C2: the entry emitted for a duration-typed fiscal year (its first filing
\* carries 'start') is the filing that, among those of the group spanning at
\* least 350 days with start.year >= fy - 1 and end.year >= fy - 1, has the
\* smallest tuple (|end.year - fy|, -days), the earliest of the input among
\* equal tuples; a filing failing a condition is never emitted; and on a
\* clean input a group with such a filing does get its entry.
C2_DurationSelection ==
    Finished =>
       \A y \in FiscalYears :
          \A g \in {GroupOf(y)} : DurationGroupRight(g, y)

\* C2 witness: a group of three filings, one too short, two qualifying with
\* different tuples of which the better stands later in the input
C2_Witness ==
    /\ pc = "extracted"
    /\ Len(results) = 1
    /\ Len(AnnualFilings) = 3
    /\ \E y \in FiscalYears :
          /\ Len(GroupOf(y)) = 3
          /\ DurationTyped(GroupOf(y))
          /\ \E i, j, k \in 1..3 :
                /\ i < j
                /\ Qualifies(GroupOf(y)[i], y)
                /\ Qualifies(GroupOf(y)[j], y)
                /\ TupleLess(GroupOf(y)[j], GroupOf(y)[i], y)
                /\ Readable(GroupOf(y)[k])
                /\ ~Qualifies(GroupOf(y)[k], y)
                /\ results[1] = GroupOf(y)[j]

\* C2 witness of the tie: two qualifying filings with the same tuple and
\* different values, the first of which is returned
C2_TieWitness ==
    /\ pc = "extracted"
    /\ Len(results) = 1
    /\ \E y \in FiscalYears :
          /\ DurationTyped(GroupOf(y))
          /\ Len(GroupOf(y)) = 2
          /\ Chosen(GroupOf(y), y, 1)
          /\ Qualifies(GroupOf(y)[2], y)
          /\ TupleSame(GroupOf(y)[1], GroupOf(y)[2], y)
          /\ GroupOf(y)[1] # GroupOf(y)[2]
          /\ results[1] = GroupOf(y)[1]

\* the instant-typed group g of year y has the entry it should
InstantGroupRight(g, y) ==
    ~DurationTyped(g) =>
       /\ \A k \in 1..Len(results) :
             results[k].fy = y =>
                \E i \in 1..Len(g) : LatestFiled(g, i) /\ results[k] = g[i]
       /\ (y \notin ResultYears) => ~CleanInput

\* C3: the entry emitted for an instant-typed fiscal year (its first filing
\* carries no 'start') is the filing of the group with the greatest 'filed'
\* date, all filings of the group considered, the earliest of the input when
\* several share that date; on a clean input the group does get its entry.
C3_InstantSelection ==
    Finished =>
       \A y \in FiscalYears :
          \A g \in {GroupOf(y)} : InstantGroupRight(g, y)

\* C3 witness: three filings of one instant-typed year, the first filed
\* earlier, the other two filed on the same latest date with different
\* values; the second is returned
C3_Witness ==
    /\ pc = "extracted"
    /\ Len(results) = 1
    /\ \E y \in FiscalYears :
          /\ ~DurationTyped(GroupOf(y))
          /\ Len(GroupOf(y)) = 3
          /\ StrLess(GroupOf(y)[1].filed, GroupOf(y)[2].filed)
          /\ GroupOf(y)[2].filed = GroupOf(y)[3].filed
          /\ GroupOf(y)[2] # GroupOf(y)[3]
          /\ results[1] = GroupOf(y)[2]

\* the input without the filings of fiscal year y
WithoutYear(y) ==
    SelectSeq(Filings, LAMBDA f : ~("fy" \in DOMAIN f /\ f.fy = y))

\* the call on the same input without the filings of year y returns the
\* list r
SameWithout(y, r) == ~r.raised /\ r.value = results

\* one entry for every year of Y, none for another year, and nothing owed
\* to the filings of the other years
EntriesOf(Y) ==
    /\ ResultYears = Y
    /\ Len(results) = Cardinality(Y)
    /\ \A y \in FiscalYears \ Y :
          \A r \in {extract_metric(FactsWith(WithoutYear(y)), "NetIncomeLoss")} :
             SameWithout(y, r)

\* C4: on a clean input extract_metric raises nothing and returns exactly
\* one entry for every fiscal year that is instant-typed or has a qualifying
\* duration filing, and none for a duration-typed year whose filings all
\* fail the eligibility test; the entries are those of the input with such a
\* year left out.
C4_DroppedYear ==
    (pc # "start" /\ CleanInput) =>
       /\ pc # "crashed"
       /\ Finished => \A Y \in {ResolvableYears} : EntriesOf(Y)

\* C4 witness: a duration-typed year whose only filing spans 200 days is
\* dropped while another year of the input is returned
C4_Witness ==
    /\ pc = "extracted"
    /\ CleanInput
    /\ Len(results) = 1
    /\ \E y \in FiscalYears :
          /\ Len(GroupOf(y)) = 1
          /\ DurationTyped(GroupOf(y))
          /\ Span(GroupOf(y)[1]) = 200
          /\ y \notin ResultYears
          /\ results[1].fy > y

\* a filing of a duration-typed group whose 'start' or 'end' string is there
\* and names no calendar day
Unparseable(f) ==
    /\ "start" \in DOMAIN f
    /\ "end" \in DOMAIN f
    /\ (~strptime_ok(f.start) \/ ~strptime_ok(f.end))

FaultyFiling(f) ==
    /\ Is10KFY(f)
    /\ Unparseable(f)
    /\ DurationTyped(GroupOf(f.fy))

\* C5: when one filing of a duration-typed group has a 'start' or 'end'
\* that cannot be parsed, that filing is skipped and nothing else is lost:
\* extract_metric returns, and returns what it returns for the input without
\* that filing.
C5_MalformedSkipped ==
    (Cardinality({i \in 1..Len(Filings) : FaultyFiling(Filings[i])}) = 1) =>
       /\ pc # "crashed"
       /\ Finished =>
             results = extract_metric(
                          FactsWith(SelectSeq(Filings, LAMBDA f : ~FaultyFiling(f))),
                          "NetIncomeLoss").value

\* the call of the script ended as r: both raised, or both returned the
\* same list
SameOutcome(r) ==
    /\ pc = "crashed" <=> r.raised
    /\ Finished => results = r.value

\* C7: every entry returned is a filing of the input with form "10-K" and
\* fp "FY", and the other filings have no influence: the call ends the same
\* way, with the same list, on the input without them.
C7_OnlyAnnual ==
    /\ Finished =>
          \A k \in 1..Len(results) :
             /\ Is10KFY(results[k])
             /\ \E i \in 1..Len(Filings) : Filings[i] = results[k]
    /\ pc # "start" =>
          \A r \in {extract_metric(FactsWith(AnnualFilings), "NetIncomeLoss")} :
             SameOutcome(r)

\* C7 witness: the input opens with a filing that is not annual and carries
\* no 'start', followed by annual filings of the same year that do; the year
\* is resolved as duration-typed
C7_Witness ==
    /\ pc = "extracted"
    /\ Len(Filings) = 3
    /\ ~Is10KFY(Filings[1])
    /\ "start" \notin DOMAIN Filings[1]
    /\ Is10KFY(Filings[2])
    /\ Is10KFY(Filings[3])
    /\ Filings[2].fy = Filings[1].fy
    /\ DurationTyped(GroupOf(Filings[2].fy))
    /\ Len(results) = 1
    /\ "start" \in DOMAIN results[1]

----------------------------------------------------------------------------
(* Properties of display_net_income *)

\* C8: the growth of an entry is "N/A" exactly when the entry is the first
\* of the series or the entry before it has value zero; otherwise it is
\* (value - prevValue) / |prevValue| * 100, prevValue being the value of the
\* entry just before it in the series, whatever the gap between their years.
C8_Growth ==
    (pc = "done" /\ results # <<>>) =>
       /\ Len(rows) = Len(results)
       /\ \A i \in 1..Len(results) :
             /\ rows[i].year = results[i].fy
             /\ (rows[i].growth = <<>>) <=> (i = 1 \/ results[i - 1].val = 0)
             /\ ~(i = 1 \/ results[i - 1].val = 0) =>
                   /\ Len(rows[i].growth) = 2
                   /\ rows[i].growth[2] > 0
                   /\ rows[i].growth[1] * abs(results[i - 1].val)
                         = (results[i].val - results[i - 1].val) * 100 * rows[i].growth[2]

\* C8 witness: the series 100, -50, 0 over the years 2020, 2021, 2023 is
\* shown with the growths N/A, -150 and +100
C8_Witness ==
    /\ pc = "done"
    /\ Len(results) = 3
    /\ [i \in 1..3 |-> results[i].fy] = <<2020, 2021, 2023>>
    /\ [i \in 1..3 |-> results[i].val] = <<100, -50, 0>>
    /\ [i \in 1..3 |-> rows[i].growth] = << <<>>, <<-150, 1>>, <<100, 1>> >>

----------------------------------------------------------------------------
(* Properties of combine_metrics and display_summary *)

\* the resolved series of the k-th metric and its fiscal years
Series(k) == extract_metric(data, METRICS[k][2]).value

SeriesYears(k) == {Series(k)[i].fy : i \in 1..Len(Series(k))}

MetricIds == 1..Len(METRICS)

\* the concept of the k-th metric is not in the collection, or has no 'USD'
Missing(k) ==
    \/ METRICS[k][2] \notin DOMAIN data
    \/ "USD" \notin DOMAIN data[METRICS[k][2]]

Combined == pc \in {"combined", "done"}

RowYears == {df.frame.rows[i].fiscal_year : i \in 1..Len(df.frame.rows)}

\* the call returned the empty list and raised nothing
ReturnsEmpty(r) == ~r.raised /\ r.value = <<>>

\* C6: when a requested concept is absent from the collection or has no
\* 'USD' unit, extract_metric raises nothing and returns the empty list, and
\* combine_metrics goes on with the other concepts: it makes the table it
\* makes of them alone, which lacks the column of the missing concept and
\* has the column of every concept with a series.
C6_MissingConcept ==
    \A k \in MetricIds :
       Missing(k) =>
          /\ \A r \in {extract_metric(data, METRICS[k][2])} : ReturnsEmpty(r)
          /\ pc # "crashed"
          /\ Combined =>
                /\ df = combine_metrics(data, SelectSeq(METRICS, LAMBDA m : m # METRICS[k]))
                /\ METRICS[k][1] \notin ColumnSet(df.frame)
                /\ \A j \in MetricIds :
                      Series(j) # <<>> => METRICS[j][1] \in ColumnSet(df.frame)

\* C6 witness: one concept absent, one without 'USD', the third with two
\* years, which alone make the table
C6_Witness ==
    /\ pc = "combined"
    /\ METRICS[1][2] \notin DOMAIN data
    /\ METRICS[2][2] \in DOMAIN data
    /\ Missing(2)
    /\ ~df.is_none
    /\ df.frame.columns = <<"assets">>
    /\ Len(df.frame.rows) = 2

\* C9: a profit margin is produced only for the fiscal years present in both
\* the net-income series and the revenue series; a year of only one of the
\* two yields no margin entry.
C9_MarginInnerJoin ==
    (pc = "done" /\ ~df.is_none) =>
       {margins[i].fiscal_year : i \in 1..Len(margins)}
          = SeriesYears(1) \cap SeriesYears(2)

YearsIn(sr) == {sr[n].fy : n \in 1..Len(sr)}

\* the cell of a row for a concept with the series sr
CellRight(row, name, sr) ==
    IF row.fiscal_year \in YearsIn(sr)
    THEN \E n \in 1..Len(sr) :
            sr[n].fy = row.fiscal_year /\ row.cells[name] = <<sr[n].val>>
    ELSE row.cells[name] = <<>>

\* df is the outer join of the series ser[1], ser[2], ... on the fiscal year
OuterJoinOf(ser) ==
    /\ df.is_none <=> (\A k \in MetricIds : ser[k] = <<>>)
    /\ ~df.is_none =>
          /\ \A i, j \in 1..Len(df.frame.rows) :
                i < j => df.frame.rows[i].fiscal_year < df.frame.rows[j].fiscal_year
          /\ RowYears = UNION {YearsIn(ser[k]) : k \in MetricIds}
          /\ ColumnSet(df.frame) = {METRICS[k][1] : k \in {j \in MetricIds : ser[j] # <<>>}}
          /\ \A i \in 1..Len(df.frame.rows) :
                \A k \in MetricIds :
                   ser[k] # <<>> => CellRight(df.frame.rows[i], METRICS[k][1], ser[k])

\* C10: the combined table has exactly one row for every fiscal year of the
\* resolved series of at least one requested concept and no other row, in
\* ascending order of fiscal year; it has the column of every concept with a
\* series; a cell holds the concept's resolved value of the year when there
\* is one and is missing (not zero) otherwise; and the result is None
\* exactly when every requested concept resolves to the empty series.
C10_OuterJoin ==
    Combined => \A ser \in {<<Series(1), Series(2), Series(3)>>} : OuterJoinOf(ser)

\* C10 witness: three concepts with series over different years; the table
\* has a row for each year of any of them, some cells missing
C10_Witness ==
    /\ pc = "combined"
    /\ ~df.is_none
    /\ Len(df.frame.columns) = 3
    /\ SeriesYears(1) = {2019, 2020}
    /\ SeriesYears(2) = {2020, 2021}
    /\ SeriesYears(3) = {2022}
    /\ Len(df.frame.rows) = 4
    /\ df.frame.rows[1].cells["revenue"] = <<>>
    /\ df.frame.rows[1].cells["net_income"] = <<119>>
    /\ df.frame.rows[4].cells["assets"] = <<322>>

\* C10 witness of None: no concept resolves to anything
C10_NoneWitness ==
    /\ pc = "combined"
    /\ df.is_none
    /\ \E k \in MetricIds : ~Missing(k)

----------------------------------------------------------------------------
(* Isolation of a structurally invalid filing *)

\* an annual filing without 'start' in a group whose first filing has one
MixedShape(f) ==
    /\ Is10KFY(f)
    /\ "start" \notin DOMAIN f
    /\ DurationTyped(GroupOf(f.fy))

InvalidAt == {i \in 1..Len(Filings) : MixedShape(Filings[i])}

\* every entry the call returns for the filings g of one year alone is
\* among the entries returned
StillReturned(r) ==
    \A n \in 1..Len(r.value) : \E k \in 1..Len(results) : results[k] = r.value[n]

\* C11: a structurally invalid filing is isolated to itself: when a group
\* whose first filing carries 'start' also holds a filing without 'start'
\* (the case of a missing required field this input has), extract_metric
\* still returns the entries of every other fiscal year, those resolved
\* before the faulty group included; the one filing never empties the result.
C11_InvalidIsolated ==
    (/\ Cardinality(InvalidAt) = 1
     /\ \A i \in 1..Len(Filings) : ~FaultyFiling(Filings[i])) =>
       /\ pc # "crashed"
       /\ Finished =>
             \A y \in FiscalYears :
                (\A i \in InvalidAt : Filings[i].fy # y) =>
                   \A r \in {extract_metric(FactsWith(GroupOf(y)), "NetIncomeLoss")} :
                      StillReturned(r)

====
